---- MODULE Spec2Model ----
(***************************************************************************)
(* doclingo: a command-line pipeline that sends a Markdown document to a   *)
(* remote generation endpoint and prints the translation (src/src/cli.ts,  *)
(* the current revision at lines 108-432).                                 *)
(*                                                                         *)
(* Strings are sequences of text units.  Text that the program inspects    *)
(* (arguments, environment values, input, response fragments) is written   *)
(* one character per unit; a literal of the program that is only ever      *)
(* copied (a message, a prompt line, the endpoint template) is one unit.   *)
(* An optional value (string | undefined) is undefined or Def(s).          *)
(***************************************************************************)
EXTENDS Naturals, Sequences, FiniteSets

VARIABLES env, argv, pc, locals, response, thrown, requests, stdout, stderr,
          exitCode, ioLog, call, ret

vars == <<env, argv, pc, locals, response, thrown, requests, stdout, stderr,
          exitCode, ioLog, call, ret>>

(* ---------------------------- bounds --------------------------------- *)

MaxArgs == 3

MaxLen == 3

MaxCandidates == 2

MaxParts == 2

(* ------------------------- JavaScript values -------------------------- *)

undefined == [defined |-> FALSE]

Def(s) == [defined |-> TRUE, value |-> s]

\* String.prototype.trim strips white space and line terminators.
WhiteSpace == {" ", "\t", "\n"}

RECURSIVE trimStart(_)
trimStart(s) ==
  IF s # <<>> /\ Head(s) \in WhiteSpace THEN trimStart(Tail(s)) ELSE s

RECURSIVE trimEnd(_)
trimEnd(s) ==
  IF s # <<>> /\ s[Len(s)] \in WhiteSpace
  THEN trimEnd(SubSeq(s, 1, Len(s) - 1))
  ELSE s

trim(s) == trimEnd(trimStart(s))

\* optional chaining: v?.trim()
optTrim(v) == IF v.defined THEN Def(trim(v.value)) ELSE undefined

\* truthiness of a string | undefined value
truthy(v) == v.defined /\ v.value # <<>>

startsWith(s, p) == Len(s) >= Len(p) /\ SubSeq(s, 1, Len(p)) = p

slice(s, n) == SubSeq(s, n + 1, Len(s))

UpperLetters ==
  <<"A", "B", "C", "D", "E", "F", "G", "H", "I", "J", "K", "L", "M",
    "N", "O", "P", "Q", "R", "S", "T", "U", "V", "W", "X", "Y", "Z">>

LowerLetters ==
  <<"a", "b", "c", "d", "e", "f", "g", "h", "i", "j", "k", "l", "m",
    "n", "o", "p", "q", "r", "s", "t", "u", "v", "w", "x", "y", "z">>

lowerUnit(c) ==
  IF \E i \in 1..Len(UpperLetters) : UpperLetters[i] = c
  THEN LowerLetters[CHOOSE i \in 1..Len(UpperLetters) : UpperLetters[i] = c]
  ELSE c

toLowerCase(s) == [i \in 1..Len(s) |-> lowerUnit(s[i])]

\* replace(/_/g, "-")
replaceUnderscores(s) == [i \in 1..Len(s) |-> IF s[i] = "_" THEN "-" ELSE s[i]]

RECURSIVE join(_)
join(parts) == IF parts = <<>> THEN <<>> ELSE Head(parts) \o join(Tail(parts))

\* template interpolation `${v}` of a string | undefined value
interpolate(v) == IF v.defined THEN v.value ELSE <<"undefined">>

(* ------------------------------ errors -------------------------------- *)

CliError(message) == [class |-> "CliError", message |-> message, exitCode |-> 1]

\* an Error that is not a CliError (thrown by the runtime)
RuntimeError(message) == [class |-> "Error", message |-> message]

Return(v) == [threw |-> FALSE, value |-> v]

Throw(e) == [threw |-> TRUE, error |-> e]

usageMessage ==
  <<"Usage: doclingo <lang> [file]\nExamples:\n  doclingo ja api-doc-en.md\n  cat api-doc-en.md | doclingo ja">>

MissingKeyMessage ==
  <<"Missing GEMINI_API_KEY. Please set your Gemini API key before running doclingo.">>

EmptyInputMessage == <<"Input is empty. Provide Markdown via a file or stdin.">>

MissingLangMessage == <<"Missing <lang> argument.\n">> \o usageMessage

NoInputMessage == <<"No file provided and stdin is empty.\n">> \o usageMessage

EmptyCliModelMessage == <<"Model id cannot be empty.">>

EmptyEnvModelMessage == <<"DOCLINGO_MODEL cannot be empty.">>

FlagValueMessage == <<"--model flag requires a model id value.">>

EmptyResponseMessage ==
  <<"Gemini API returned an empty response. Please try again later.">>

(* ------------------------- literals inspected ------------------------- *)

HttpPrefix == <<"h", "t", "t", "p", ":", "/", "/">>

HttpsPrefix == <<"h", "t", "t", "p", "s", ":", "/", "/">>

FlagPrefix == <<"-", "-">>

ModelFlag == <<"-", "-", "m", "o", "d", "e", "l">>

ModelFlagEq == <<"-", "-", "m", "o", "d", "e", "l", "=">>

DEFAULT_GEMINI_MODEL_ID ==
  <<"g", "e", "m", "i", "n", "i", "-", "2", ".", "5", "-",
    "f", "l", "a", "s", "h", "-", "l", "i", "t", "e">>

EndpointHead == <<"https://generativelanguage.googleapis.com/v1beta/models/">>

EndpointTail == <<":generateContent">>

(* --------------------------- configuration ---------------------------- *)

\* variant: the key is tested without being trimmed
ensureApiKey_untrimmed(processEnv) ==
  LET apiKey == processEnv.GEMINI_API_KEY
  IN  IF ~truthy(apiKey)
      THEN Throw(CliError(MissingKeyMessage))
      ELSE Return(trim(apiKey.value))

ensureApiKey(processEnv) ==
  LET apiKey == optTrim(processEnv.GEMINI_API_KEY)
  IN  IF ~truthy(apiKey)
      THEN Throw(CliError(MissingKeyMessage))
      ELSE Return(apiKey.value)

\* variant: the content is tested without being trimmed
ensureInputContent_untrimmed(content) ==
  IF content = <<>>
  THEN Throw(CliError(EmptyInputMessage))
  ELSE Return(content)

ensureInputContent(content) ==
  IF trim(content) = <<>>
  THEN Throw(CliError(EmptyInputMessage))
  ELSE Return(content)

ensureTargetLanguage(lang) ==
  IF ~truthy(optTrim(lang))
  THEN Throw(CliError(MissingLangMessage))
  ELSE Return(lang.value)

(* -------------------------- language metadata ------------------------- *)

KeyJa == <<"j", "a">>

KeyEn == <<"e", "n">>

KeyEs == <<"e", "s">>

KeyZhCn == <<"z", "h", "-", "c", "n">>

KeyZhTw == <<"z", "h", "-", "t", "w">>

\* The Japanese style line names the polite register in Japanese script;
\* the unit below stands for that literal.
languagePresets ==
  [k \in {KeyJa, KeyEn, KeyEs, KeyZhCn, KeyZhTw} |->
     CASE k = KeyJa ->
            [displayName |-> <<"Japanese">>,
             instructions |-> <<"Write clear Japanese technical documentation in polite desu-masu style without additional commentary.">>]
       [] k = KeyEn ->
            [displayName |-> <<"English">>,
             instructions |-> <<"Produce concise, neutral American English suitable for software documentation.">>]
       [] k = KeyEs ->
            [displayName |-> <<"Spanish">>,
             instructions |-> <<"Use neutral international Spanish with formal tone for professional technical docs.">>]
       [] k = KeyZhCn ->
            [displayName |-> <<"Simplified Chinese">>,
             instructions |-> <<"Use Simplified Chinese with precise terminology and a professional yet approachable tone.">>]
       [] k = KeyZhTw ->
            [displayName |-> <<"Traditional Chinese">>,
             instructions |-> <<"Use Traditional Chinese with Taiwan technical vocabulary and a polite instructional tone.">>]]

FallbackInstructions ==
  <<"Maintain a professional, neutral tone appropriate for technical documentation in the requested language.">>

\* languagePresets is an object literal: a key it does not own is looked up
\* on Object.prototype.  Of the inherited names only this one can equal a
\* lookup key, which is lower case and holds no underscore.
InheritedKeys ==
  {<<"c", "o", "n", "s", "t", "r", "u", "c", "t", "o", "r">>}

\* languagePresets[lookupKey]: an own preset, the inherited function object
\* (truthy, with neither displayName nor instructions), or undefined.
presetLookup(lookupKey) ==
  IF lookupKey \in DOMAIN languagePresets
  THEN [found |-> TRUE,
        displayName |-> Def(languagePresets[lookupKey].displayName),
        instructions |-> Def(languagePresets[lookupKey].instructions)]
  ELSE IF lookupKey \in InheritedKeys
  THEN [found |-> TRUE, displayName |-> undefined, instructions |-> undefined]
  ELSE [found |-> FALSE]

resolveLanguageMetadata(lang) ==
  LET normalizedCode == trim(lang)
      lookupKey == replaceUnderscores(toLowerCase(normalizedCode))
      preset == presetLookup(lookupKey)
  IN  IF preset.found
      THEN [code |-> normalizedCode,
            displayName |-> preset.displayName,
            instructions |-> preset.instructions]
      ELSE [code |-> normalizedCode,
            displayName |-> Def(normalizedCode),
            instructions |-> Def(FallbackInstructions)]

PromptSeparator == <<"\n\n">>

buildTranslationPrompt(metadata, content) ==
  <<"You are a translator for international software-engineering documentation.">>
  \o PromptSeparator
  \o <<"Translate the following Markdown into ">> \o interpolate(metadata.displayName)
  \o <<" (">> \o metadata.code \o <<").">>
  \o PromptSeparator
  \o <<"Style guidance: ">> \o interpolate(metadata.instructions)
  \o PromptSeparator
  \o <<"Preserve the Markdown structure and output only the translated Markdown.">>
  \o PromptSeparator
  \o <<"=== Source Markdown ===">>
  \o PromptSeparator
  \o content

(* --------------------------- model endpoint --------------------------- *)

\* variant: only the https:// prefix is passed through
buildModelEndpoint_httpsOnly(modelId) ==
  IF startsWith(modelId, HttpsPrefix)
  THEN modelId
  ELSE EndpointHead \o modelId \o EndpointTail

buildModelEndpoint(modelId) ==
  IF startsWith(modelId, HttpPrefix) \/ startsWith(modelId, HttpsPrefix)
  THEN modelId
  ELSE EndpointHead \o modelId \o EndpointTail

\* variant: the environment override is consulted before the flag
resolveModelId_envFirst(cliModelOverride, processEnv) ==
  LET cliModel == optTrim(cliModelOverride)
      envModel == optTrim(processEnv.DOCLINGO_MODEL)
  IN  IF envModel = Def(<<>>) THEN Throw(CliError(EmptyEnvModelMessage))
      ELSE IF truthy(envModel) THEN Return(envModel.value)
      ELSE IF cliModel = Def(<<>>) THEN Throw(CliError(EmptyCliModelMessage))
      ELSE IF truthy(cliModel) THEN Return(cliModel.value)
      ELSE Return(DEFAULT_GEMINI_MODEL_ID)

\* variant: a blank override is treated like an absent one
resolveModelId_blankAsAbsent(cliModelOverride, processEnv) ==
  LET cliModel == optTrim(cliModelOverride)
      envModel == optTrim(processEnv.DOCLINGO_MODEL)
  IN  IF truthy(cliModel) THEN Return(cliModel.value)
      ELSE IF truthy(envModel) THEN Return(envModel.value)
      ELSE Return(DEFAULT_GEMINI_MODEL_ID)

resolveModelId(cliModelOverride, processEnv) ==
  LET cliModel == optTrim(cliModelOverride)
      envModel == optTrim(processEnv.DOCLINGO_MODEL)
  IN  IF cliModel = Def(<<>>) THEN Throw(CliError(EmptyCliModelMessage))
      ELSE IF truthy(cliModel) THEN Return(cliModel.value)
      ELSE IF envModel = Def(<<>>) THEN Throw(CliError(EmptyEnvModelMessage))
      ELSE IF truthy(envModel) THEN Return(envModel.value)
      ELSE Return(DEFAULT_GEMINI_MODEL_ID)

(* -------------------------- argument parser --------------------------- *)

\* argv[i] with JavaScript's 0-based index: undefined past the end
at(args, i) == IF i < Len(args) THEN Def(args[i + 1]) ELSE undefined

\* variant: the joined form lacks its continue, so the flag token is also
\* collected as a positional
RECURSIVE parseLoop_noContinue(_, _, _, _)
parseLoop_noContinue(args, i, pos, override) ==
  IF ~(i < Len(args))
  THEN Return([positional |-> pos, modelOverride |-> override])
  ELSE LET arg == args[i + 1]
       IN  IF arg = ModelFlag
           THEN LET value == at(args, i + 1)
                IN  IF ~truthy(value) \/ startsWith(value.value, FlagPrefix)
                    THEN Throw(CliError(FlagValueMessage))
                    ELSE parseLoop_noContinue(args, i + 2, pos, value)
           ELSE IF startsWith(arg, ModelFlagEq)
           THEN LET value == slice(arg, Len(ModelFlagEq))
                IN  IF trim(value) = <<>>
                    THEN Throw(CliError(FlagValueMessage))
                    ELSE parseLoop_noContinue(args, i + 1, Append(pos, arg), Def(value))
           ELSE parseLoop_noContinue(args, i + 1, Append(pos, arg), override)

\* variant: the value after --model is not skipped (no i += 1)
RECURSIVE parseLoop_valueKept(_, _, _, _)
parseLoop_valueKept(args, i, pos, override) ==
  IF ~(i < Len(args))
  THEN Return([positional |-> pos, modelOverride |-> override])
  ELSE LET arg == args[i + 1]
       IN  IF arg = ModelFlag
           THEN LET value == at(args, i + 1)
                IN  IF ~truthy(value) \/ startsWith(value.value, FlagPrefix)
                    THEN Throw(CliError(FlagValueMessage))
                    ELSE parseLoop_valueKept(args, i + 1, pos, value)
           ELSE IF startsWith(arg, ModelFlagEq)
           THEN LET value == slice(arg, Len(ModelFlagEq))
                IN  IF trim(value) = <<>>
                    THEN Throw(CliError(FlagValueMessage))
                    ELSE parseLoop_valueKept(args, i + 1, pos, Def(value))
           ELSE parseLoop_valueKept(args, i + 1, Append(pos, arg), override)

RECURSIVE parseLoop(_, _, _, _)
parseLoop(args, i, pos, override) ==
  IF ~(i < Len(args))
  THEN Return([positional |-> pos, modelOverride |-> override])
  ELSE LET arg == args[i + 1]
       IN  IF arg = ModelFlag
           THEN LET value == at(args, i + 1)
                IN  IF ~truthy(value) \/ startsWith(value.value, FlagPrefix)
                    THEN Throw(CliError(FlagValueMessage))
                    ELSE parseLoop(args, i + 2, pos, value)
           ELSE IF startsWith(arg, ModelFlagEq)
           THEN LET value == slice(arg, Len(ModelFlagEq))
                IN  IF trim(value) = <<>>
                    THEN Throw(CliError(FlagValueMessage))
                    ELSE parseLoop(args, i + 1, pos, Def(value))
           ELSE parseLoop(args, i + 1, Append(pos, arg), override)

parseCliArgs(args) == parseLoop(args, 0, <<>>, undefined)

(* ------------------------- translation client ------------------------- *)

Digits == <<"0", "1", "2", "3", "4", "5", "6", "7", "8", "9">>

\* `${n}` of a non-negative integer: its decimal digits
RECURSIVE toString(_)
toString(n) ==
  IF n < 10 THEN <<Digits[n + 1]>>
  ELSE toString(n \div 10) \o <<Digits[(n % 10) + 1]>>

\* Response.ok
ok(resp) == resp.status >= 200 /\ resp.status <= 299

\* candidate.content?.parts ?? []
partsOf(candidate) ==
  IF candidate.content.defined /\ candidate.content.value.parts.defined
  THEN candidate.content.value.parts.value
  ELSE <<>>

RECURSIVE flatMapParts(_)
flatMapParts(candidates) ==
  IF candidates = <<>> THEN <<>>
  ELSE partsOf(Head(candidates)) \o flatMapParts(Tail(candidates))

\* part?.text ?? ""
textOf(part) == IF part.text.defined THEN part.text.value ELSE <<>>

\* variant: only the first candidate is read
extractText_firstCandidate(json) ==
  IF ~json.candidates.defined THEN undefined
  ELSE LET parts == IF json.candidates.value = <<>> THEN <<>>
                    ELSE partsOf(Head(json.candidates.value))
       IN  Def(trim(join([i \in 1..Len(parts) |-> textOf(parts[i])])))

\* json.candidates?.flatMap(...).map(...).join("").trim()
extractText(json) ==
  IF ~json.candidates.defined THEN undefined
  ELSE LET parts == flatMapParts(json.candidates.value)
       IN  Def(trim(join([i \in 1..Len(parts) |-> textOf(parts[i])])))

\* the body reader callGemini calls: text() at line 354, json() at line 360
bodyMethod(resp) == IF ~ok(resp) THEN "response.text" ELSE "response.json"

\* variant: the status is not looked at, the body is always parsed
readResponse_statusIgnored(resp) ==
  IF resp.json.threw THEN Throw(resp.json.error)
  ELSE LET translatedText == extractText(resp.json.value)
       IN  IF ~truthy(translatedText)
           THEN Throw(CliError(EmptyResponseMessage))
           ELSE Return(translatedText.value)

\* callGemini from the resolution of fetch on: the status check, the body
\* read (text() of a failure, json() of a success) and the extraction.
\* resp.json is what response.json() makes of the body: a value or a throw.
readResponse(resp) ==
  IF ~ok(resp)
  THEN Throw(CliError(<<"Gemini API request failed with status ">>
                      \o toString(resp.status) \o <<": ">> \o resp.text))
  ELSE IF resp.json.threw THEN Throw(resp.json.error)
  ELSE LET translatedText == extractText(resp.json.value)
       IN  IF ~truthy(translatedText)
           THEN Throw(CliError(EmptyResponseMessage))
           ELSE Return(translatedText.value)

\* the request callGemini hands to fetch
buildRequest(modelEndpoint, apiKey, promptText) ==
  [url |-> modelEndpoint,
   method |-> "POST",
   headers |-> [contentType |-> "application/json", xGoogApiKey |-> apiKey],
   body |-> [contents |-> <<[role |-> "user",
                             parts |-> <<[text |-> promptText]>>]>>]]

\* callGemini up to its first await: Return(request) or the throw
prepareRequest(promptText, cliModelOverride, processEnv) ==
  LET key == ensureApiKey(processEnv)
      modelId == resolveModelId(cliModelOverride, processEnv)
  IN  IF key.threw THEN key
      ELSE IF modelId.threw THEN modelId
      ELSE Return(buildRequest(buildModelEndpoint(modelId.value),
                               key.value, promptText))

(* ------------------------------ inputs -------------------------------- *)

SeqUpTo(S, n) == UNION {[1..k -> S] : k \in 0..n}

\* values of GEMINI_API_KEY: unset, empty, blank, set
ApiKeys == {undefined, Def(<<>>), Def(<<" ">>), Def(<<"k">>)}

\* values of DOCLINGO_MODEL in a run of main
EnvModels == {undefined, Def(<<>>), Def(<<"e">>)}

\* command-line tokens: "", " ", ja, f, --v, --model, --model=, --model=m
ArgTokens ==
  {<<>>, <<" ">>, KeyJa, <<"f">>, <<"-", "-", "v">>,
   ModelFlag, ModelFlagEq, ModelFlagEq \o <<"m">>}

ArgVectors == SeqUpTo(ArgTokens, MaxArgs)

\* what a file or the stdin stream may hold
InputTexts == {<<>>, <<" ", "\n">>, <<"#", " ", "T">>}

\* the error a failed readFile carries, with and without a message
FileErrors == {RuntimeError(<<"ENOENT">>), RuntimeError(<<>>)}

StreamErrors == {RuntimeError(<<"EIO">>)}

Part(t) == [text |-> Def(t)]

Candidate(parts) == [content |-> Def([parts |-> Def(parts)])]

JsonThrow == Throw(RuntimeError(<<"Unexpected token < in JSON at position 0">>))

\* responses the remote service may give to a run of main
ServiceResponses ==
  { [status |-> 500, text |-> <<"d", "o", "w", "n">>, json |-> JsonThrow],
    [status |-> 404, text |-> <<>>, json |-> JsonThrow],
    [status |-> 503, text |-> <<"{", "c", "}">>,
     json |-> Return([candidates |-> Def(<<Candidate(<<Part(<<"Z">>)>>)>>)])],
    [status |-> 200, text |-> <<"<">>, json |-> JsonThrow],
    [status |-> 200, text |-> <<"{", "}">>,
     json |-> Return([candidates |-> undefined])],
    [status |-> 200, text |-> <<"{", "c", "}">>,
     json |-> Return([candidates |-> Def(<<Candidate(<<Part(<<" ">>)>>)>>)])],
    [status |-> 200, text |-> <<"{", "c", "c", "}">>,
     json |-> Return([candidates |->
                Def(<<Candidate(<<Part(<<"#", " ">>)>>),
                      Candidate(<<Part(<<"X", "\n">>)>>)>>)])] }

FetchErrors == {RuntimeError(<<"fetch failed">>)}

(* --------------------------- the run of main -------------------------- *)

NoLocals ==
  [positional |-> <<>>, modelOverride |-> undefined, targetLanguage |-> undefined,
   languageMetadata |-> undefined, rawInput |-> undefined, input |-> undefined,
   prompt |-> undefined, translation |-> undefined]

NoCall == [fn |-> "none"]

Pending == [pending |-> TRUE]

Init ==
  /\ env \in [GEMINI_API_KEY : ApiKeys, DOCLINGO_MODEL : EnvModels]
  /\ argv \in ArgVectors
  /\ pc = "ensureApiKey"
  /\ locals = NoLocals
  /\ response = undefined
  /\ thrown = undefined
  /\ requests = <<>>
  /\ stdout = <<>>
  /\ stderr = <<>>
  /\ exitCode = undefined
  /\ ioLog = <<>>
  /\ call = NoCall
  /\ ret = Pending

\* a throw inside main rejects its promise: main().catch(handleError)
Raise(e) == thrown' = Def(e) /\ pc' = "handleError"

\* variant: main does not check the key before parsing the arguments
Main_ensureApiKey_skipped ==
  /\ pc = "ensureApiKey"
  /\ pc' = "parseCliArgs"
  /\ UNCHANGED <<env, argv, locals, response, thrown, requests, stdout, stderr,
                 exitCode, ioLog, call, ret>>

\* line 416
Main_ensureApiKey ==
  /\ pc = "ensureApiKey"
  /\ LET r == ensureApiKey(env)
     IN  IF r.threw THEN Raise(r.error)
         ELSE pc' = "parseCliArgs" /\ UNCHANGED thrown
  /\ UNCHANGED <<env, argv, locals, response, requests, stdout, stderr,
                 exitCode, ioLog, call, ret>>

\* lines 418-420
Main_parseCliArgs ==
  /\ pc = "parseCliArgs"
  /\ LET r == parseCliArgs(argv)
     IN  IF r.threw THEN Raise(r.error) /\ UNCHANGED locals
         ELSE /\ locals' = [locals EXCEPT !.positional = r.value.positional,
                                          !.modelOverride = r.value.modelOverride]
              /\ pc' = "ensureTargetLanguage"
              /\ UNCHANGED thrown
  /\ UNCHANGED <<env, argv, response, requests, stdout, stderr, exitCode,
                 ioLog, call, ret>>

\* line 422; langArg is positional[0]
Main_ensureTargetLanguage ==
  /\ pc = "ensureTargetLanguage"
  /\ LET r == ensureTargetLanguage(at(locals.positional, 0))
     IN  IF r.threw THEN Raise(r.error) /\ UNCHANGED locals
         ELSE /\ locals' = [locals EXCEPT !.targetLanguage = Def(r.value)]
              /\ pc' = "resolveLanguageMetadata"
              /\ UNCHANGED thrown
  /\ UNCHANGED <<env, argv, response, requests, stdout, stderr, exitCode,
                 ioLog, call, ret>>

\* line 423
Main_resolveLanguageMetadata ==
  /\ pc = "resolveLanguageMetadata"
  /\ locals' = [locals EXCEPT !.languageMetadata =
                  resolveLanguageMetadata(locals.targetLanguage.value)]
  /\ pc' = "resolveInputSource"
  /\ UNCHANGED <<env, argv, response, thrown, requests, stdout, stderr,
                 exitCode, ioLog, call, ret>>

\* filePath is positional[1]
filePathOf(l) == at(l.positional, 1)

\* readFromFile: the catch wraps every failure of readFile in a CliError
readFromFile(filePath, outcome) ==
  IF outcome.threw
  THEN LET reason == IF outcome.error.class = "Error" /\ outcome.error.message # <<>>
                     THEN <<" (">> \o outcome.error.message \o <<")">>
                     ELSE <<>>
       IN  Throw(CliError(<<"Failed to read file: ">> \o filePath \o reason))
  ELSE outcome

\* line 424, resolveInputSource with a truthy filePath
ResolveInputSource_file ==
  /\ pc = "resolveInputSource"
  /\ truthy(filePathOf(locals))
  /\ ioLog' = Append(ioLog, "readFile")
  /\ \E outcome \in {Return(t) : t \in InputTexts} \cup {Throw(e) : e \in FileErrors} :
       LET r == readFromFile(filePathOf(locals).value, outcome)
       IN  IF r.threw THEN Raise(r.error) /\ UNCHANGED locals
           ELSE /\ locals' = [locals EXCEPT !.rawInput = Def(r.value)]
                /\ pc' = "ensureInputContent"
                /\ UNCHANGED thrown
  /\ UNCHANGED <<env, argv, response, requests, stdout, stderr, exitCode,
                 call, ret>>

\* resolveInputSource without a filePath, stdin a terminal
ResolveInputSource_tty ==
  /\ pc = "resolveInputSource"
  /\ ~truthy(filePathOf(locals))
  /\ ioLog' = Append(ioLog, "isTTY:true")
  /\ Raise(CliError(NoInputMessage))
  /\ UNCHANGED <<env, argv, locals, response, requests, stdout, stderr,
                 exitCode, call, ret>>

\* resolveInputSource without a filePath, stdin not a terminal: readFromStdin
\* resolves with the data at "end" or rejects with the stream's own error
ResolveInputSource_stdin ==
  /\ pc = "resolveInputSource"
  /\ ~truthy(filePathOf(locals))
  /\ ioLog' = ioLog \o <<"isTTY:false", "readStdin">>
  /\ \E outcome \in {Return(t) : t \in InputTexts} \cup {Throw(e) : e \in StreamErrors} :
       IF outcome.threw THEN Raise(outcome.error) /\ UNCHANGED locals
       ELSE /\ locals' = [locals EXCEPT !.rawInput = Def(outcome.value)]
            /\ pc' = "ensureInputContent"
            /\ UNCHANGED thrown
  /\ UNCHANGED <<env, argv, response, requests, stdout, stderr, exitCode,
                 call, ret>>

\* line 425
Main_ensureInputContent ==
  /\ pc = "ensureInputContent"
  /\ LET r == ensureInputContent(locals.rawInput.value)
     IN  IF r.threw THEN Raise(r.error) /\ UNCHANGED locals
         ELSE /\ locals' = [locals EXCEPT !.input = Def(r.value)]
              /\ pc' = "buildTranslationPrompt"
              /\ UNCHANGED thrown
  /\ UNCHANGED <<env, argv, response, requests, stdout, stderr, exitCode,
                 ioLog, call, ret>>

\* line 427
Main_buildTranslationPrompt ==
  /\ pc = "buildTranslationPrompt"
  /\ locals' = [locals EXCEPT !.prompt =
                  Def(buildTranslationPrompt(locals.languageMetadata,
                                             locals.input.value))]
  /\ pc' = "callGemini"
  /\ UNCHANGED <<env, argv, response, thrown, requests, stdout, stderr,
                 exitCode, ioLog, call, ret>>

\* line 428, callGemini up to the await of fetch (lines 334-351)
CallGemini_fetch ==
  /\ pc = "callGemini"
  /\ LET r == prepareRequest(locals.prompt.value, locals.modelOverride, env)
     IN  IF r.threw THEN Raise(r.error) /\ UNCHANGED requests
         ELSE /\ requests' = Append(requests, r.value)
              /\ pc' = "awaitFetch"
              /\ UNCHANGED thrown
  /\ UNCHANGED <<env, argv, locals, response, stdout, stderr, exitCode,
                 ioLog, call, ret>>

\* fetch rejects (no connection): callGemini rethrows the runtime's error
CallGemini_fetchFailed ==
  /\ pc = "awaitFetch"
  /\ \E e \in FetchErrors : Raise(e)
  /\ UNCHANGED <<env, argv, locals, response, requests, stdout, stderr,
                 exitCode, ioLog, call, ret>>

\* variant: a response that is not ok sends the request once more
CallGemini_response_retry ==
  /\ pc = "awaitFetch"
  /\ \E resp \in ServiceResponses :
       /\ response' = Def(resp)
       /\ ioLog' = Append(ioLog, bodyMethod(resp))
       /\ LET r == readResponse(resp)
          IN  IF r.threw
              THEN IF ~ok(resp) /\ Len(requests) < 2
                   THEN pc' = "callGemini" /\ UNCHANGED <<locals, thrown>>
                   ELSE Raise(r.error) /\ UNCHANGED locals
              ELSE /\ locals' = [locals EXCEPT !.translation = Def(r.value)]
                   /\ pc' = "write"
                   /\ UNCHANGED thrown
  /\ UNCHANGED <<env, argv, requests, stdout, stderr, exitCode, call, ret>>

\* fetch resolves: lines 353-378
CallGemini_response ==
  /\ pc = "awaitFetch"
  /\ \E resp \in ServiceResponses :
       /\ response' = Def(resp)
       /\ ioLog' = Append(ioLog, bodyMethod(resp))
       /\ LET r == readResponse(resp)
          IN  IF r.threw THEN Raise(r.error) /\ UNCHANGED locals
              ELSE /\ locals' = [locals EXCEPT !.translation = Def(r.value)]
                   /\ pc' = "write"
                   /\ UNCHANGED thrown
  /\ UNCHANGED <<env, argv, requests, stdout, stderr, exitCode, call, ret>>

\* line 429; main returns and the process ends with code 0
Main_write ==
  /\ pc = "write"
  /\ stdout' = Append(stdout, locals.translation.value)
  /\ exitCode' = Def(0)
  /\ pc' = "exited"
  /\ UNCHANGED <<env, argv, locals, response, thrown, requests, stderr,
                 ioLog, call, ret>>

\* variant: the diagnostic goes to standard output
handleError_onStdout ==
  /\ pc = "handleError"
  /\ stdout' = Append(stdout, thrown.value.message \o <<"\n">>)
  /\ exitCode' = Def(1)
  /\ pc' = "exited"
  /\ UNCHANGED <<env, argv, locals, response, thrown, requests, stderr,
                 ioLog, call, ret>>

\* lines 283-295
handleError ==
  /\ pc = "handleError"
  /\ LET error == thrown.value
     IN  IF error.class = "CliError"
         THEN /\ stderr' = Append(stderr, error.message \o <<"\n">>)
              /\ exitCode' = Def(error.exitCode)
         ELSE LET message == IF error.class = "Error" /\ error.message # <<>>
                             THEN error.message
                             ELSE <<"An unknown error occurred.">>
              IN  /\ stderr' = Append(stderr, <<"Unexpected error: ">> \o message \o <<"\n">>)
                  /\ exitCode' = Def(1)
  /\ pc' = "exited"
  /\ UNCHANGED <<env, argv, locals, response, thrown, requests, stdout,
                 ioLog, call, ret>>

Next ==
  \/ Main_ensureApiKey
  \/ Main_parseCliArgs
  \/ Main_ensureTargetLanguage
  \/ Main_resolveLanguageMetadata
  \/ ResolveInputSource_file
  \/ ResolveInputSource_tty
  \/ ResolveInputSource_stdin
  \/ Main_ensureInputContent
  \/ Main_buildTranslationPrompt
  \/ CallGemini_fetch
  \/ CallGemini_fetchFailed
  \/ CallGemini_response
  \/ Main_write
  \/ handleError

Spec == Init /\ [][Next]_vars

(* ------------------- the functions applied on their own --------------- *)

\* a model override as the flag or the environment may supply it
ModelValues == {<<>>, <<" ">>, <<"m">>, <<" ", "m", " ">>, <<"e">>, <<"\t", "e">>}

OptionalModels == {undefined} \cup {Def(m) : m \in ModelValues}

\* model identifiers as resolveModelId returns them: trimmed and not empty
ModelIds ==
  { DEFAULT_GEMINI_MODEL_ID,
    <<"m">>,
    HttpPrefix \o <<"h">>,
    HttpsPrefix \o <<"h">>,
    HttpPrefix,
    HttpsPrefix,
    HttpPrefix \o <<"a", " ", "b">>,
    <<"H", "T", "T", "P", ":", "/", "/", "h">>,
    <<"h", "t", "t", "p", ":", "/", "h">>,
    <<"h", "t", "t", "p", "s", ":", "h">>,
    <<"f", "t", "p", ":", "/", "/", "h">>,
    <<"x">> \o HttpPrefix \o <<"h">> }

\* language codes as ensureTargetLanguage lets them through: not blank
LangCodes ==
  { KeyJa, <<"J", "A">>, <<"J", "a">>, KeyEn, KeyEs,
    KeyZhCn, <<"z", "h", "-", "C", "N">>, <<"z", "h", "_", "c", "n">>,
    KeyZhTw, <<"z", "h", "-", "T", "W">>, <<"Z", "H", "_", "T", "W">>,
    <<"f", "r">>, <<"F", "R">>, <<"z", "h">>, <<"p", "t", "_", "B", "R">>,
    <<" ", "j", "a">>, <<"f", "r", "\n">>,
    <<"c", "o", "n", "s", "t", "r", "u", "c", "t", "o", "r">> }

ContentUnits == {" ", "\n", "a"}

Contents == SeqUpTo(ContentUnits, MaxLen)

\* fragments whose order and whose leading white space show in the result
TextFragments == {<<" ", "a">>, <<"b">>}

PartValues == {[text |-> undefined]} \cup {Part(t) : t \in TextFragments}

CandidateValues ==
  {[content |-> undefined], [content |-> Def([parts |-> undefined])]}
  \cup {Candidate(ps) : ps \in SeqUpTo(PartValues, MaxParts)}

JsonValues ==
  {[candidates |-> undefined]}
  \cup {[candidates |-> Def(cs)] : cs \in SeqUpTo(CandidateValues, MaxCandidates)}

UnitResponses ==
  {[status |-> 200, text |-> <<"{", "}">>, json |-> Return(j)] : j \in JsonValues}
  \cup ServiceResponses

UnitCalls ==
  {[fn |-> "parseCliArgs", args |-> a] : a \in ArgVectors}
  \cup {[fn |-> "resolveModelId", cliModelOverride |-> c,
         processEnv |-> [GEMINI_API_KEY |-> Def(<<"k">>), DOCLINGO_MODEL |-> e]] :
          c \in OptionalModels, e \in OptionalModels}
  \cup {[fn |-> "buildModelEndpoint", modelId |-> m] : m \in ModelIds}
  \cup {[fn |-> "resolveLanguageMetadata", lang |-> l] : l \in LangCodes}
  \cup {[fn |-> "ensureInputContent", content |-> c] : c \in Contents}
  \cup {[fn |-> "readResponse", resp |-> r] : r \in UnitResponses}

InitUnit ==
  /\ call \in UnitCalls
  /\ ret = Pending
  /\ env = [GEMINI_API_KEY |-> undefined, DOCLINGO_MODEL |-> undefined]
  /\ argv = <<>>
  /\ pc = "unit"
  /\ locals = NoLocals
  /\ response = undefined
  /\ thrown = undefined
  /\ requests = <<>>
  /\ stdout = <<>>
  /\ stderr = <<>>
  /\ exitCode = undefined
  /\ ioLog = <<>>

\* the applied function's outcome r is recorded, once
Applied(r) ==
  /\ ret = Pending
  /\ ret' = r
  /\ UNCHANGED <<env, argv, pc, locals, response, thrown, requests, stdout,
                 stderr, exitCode, ioLog, call>>

Apply_parseCliArgs ==
  call.fn = "parseCliArgs" /\ Applied(parseCliArgs(call.args))

Apply_resolveModelId ==
  /\ call.fn = "resolveModelId"
  /\ Applied(resolveModelId(call.cliModelOverride, call.processEnv))

Apply_buildModelEndpoint ==
  /\ call.fn = "buildModelEndpoint"
  /\ Applied(Return(buildModelEndpoint(call.modelId)))

Apply_resolveLanguageMetadata ==
  /\ call.fn = "resolveLanguageMetadata"
  /\ Applied(Return(resolveLanguageMetadata(call.lang)))

Apply_ensureInputContent ==
  /\ call.fn = "ensureInputContent"
  /\ Applied(ensureInputContent(call.content))

Apply_readResponse ==
  call.fn = "readResponse" /\ Applied(readResponse(call.resp))

NextUnit ==
  \/ Apply_parseCliArgs
  \/ Apply_resolveModelId
  \/ Apply_buildModelEndpoint
  \/ Apply_resolveLanguageMetadata
  \/ Apply_ensureInputContent
  \/ Apply_readResponse

SpecUnit == InitUnit /\ [][NextUnit]_vars

(* ------------------------------ claims -------------------------------- *)

\* s is empty or holds white space only
AllWhite(s) == \A i \in 1..Len(s) : s[i] \in WhiteSpace

\* an optional string that is present but blank
Blank(v) == v.defined /\ AllWhite(v.value)

\* an optional string that is present and not blank
NonBlank(v) == v.defined /\ ~AllWhite(v.value)

\* s without its leading and trailing white space
Trimmed(s) ==
  IF AllWhite(s) THEN <<>>
  ELSE LET first == CHOOSE i \in 1..Len(s) :
                      s[i] \notin WhiteSpace /\ \A j \in 1..(i - 1) : s[j] \in WhiteSpace
           last == CHOOSE i \in 1..Len(s) :
                      s[i] \notin WhiteSpace /\ \A j \in (i + 1)..Len(s) : s[j] \in WhiteSpace
       IN  SubSeq(s, first, last)

BeginsWith(s, p) == Len(p) <= Len(s) /\ \A i \in 1..Len(p) : s[i] = p[i]

Exited == pc = "exited"

Failed == thrown.defined

\* C1: standard output receives at most one write; a run that fails writes
\* nothing to it and exits non-zero; a run that succeeds has written exactly
\* the text extracted from the response; nothing is written before a failure.
C1_StdoutAllOrNothing ==
  /\ Len(stdout) <= 1
  /\ (Failed => stdout = <<>>)
  /\ (Exited /\ Failed => exitCode.defined /\ exitCode.value # 0)
  /\ (stdout # <<>> => Exited /\ ~Failed)
  /\ (Exited /\ ~Failed =>
        /\ exitCode = Def(0)
        /\ response.defined /\ ~response.value.json.threw
        /\ Def(stdout[1]) = extractText(response.value.json.value)
        /\ Len(stdout) = 1)

C1_Witness ==
  Exited /\ ~Failed /\ stdout = << <<"#", " ", "X">> >>

\* C2: with GEMINI_API_KEY unset or blank, whatever the arguments, the run
\* never leaves the credential check: no request is sent, nothing is written
\* to standard output, and it ends with the credential message on the error
\* stream and a non-zero exit code.
C2_MissingKeyFailsFirst ==
  (~env.GEMINI_API_KEY.defined \/ Blank(env.GEMINI_API_KEY)) =>
     /\ requests = <<>>
     /\ stdout = <<>>
     /\ ioLog = <<>>
     /\ pc \in {"ensureApiKey", "handleError", "exited"}
     /\ (Failed => thrown.value = CliError(MissingKeyMessage))
     /\ (Exited => /\ Failed
                   /\ stderr = <<MissingKeyMessage \o <<"\n">>>>
                   /\ exitCode.defined /\ exitCode.value # 0)

C2_Witness ==
  /\ Exited
  /\ env.GEMINI_API_KEY = Def(<<" ">>)
  /\ argv = <<KeyJa, <<"f">>, ModelFlagEq \o <<"m">>>>
  /\ stderr = <<MissingKeyMessage \o <<"\n">>>>

IsResolveModelId == call.fn = "resolveModelId" /\ ret # Pending

CliOverride == call.cliModelOverride

EnvOverride == call.processEnv.DOCLINGO_MODEL

\* C3: resolveModelId gives the flag's override, trimmed, whenever it is
\* present and not blank, whatever the environment holds; with no flag
\* override, a non-blank DOCLINGO_MODEL (without surrounding white space);
\* with neither, gemini-2.5-flash-lite.
C3_ModelPrecedence ==
  IsResolveModelId =>
     /\ (NonBlank(CliOverride) => ret = Return(Trimmed(CliOverride.value)))
     /\ (~CliOverride.defined /\ NonBlank(EnvOverride) =>
           ret = Return(Trimmed(EnvOverride.value)))
     /\ (~CliOverride.defined /\ ~EnvOverride.defined =>
           ret = Return(DEFAULT_GEMINI_MODEL_ID))

C3_Witness ==
  /\ IsResolveModelId
  /\ CliOverride = Def(<<" ", "m", " ">>)
  /\ EnvOverride = Def(<<"e">>)
  /\ ret = Return(<<"m">>)

InvalidModelErrors == {CliError(EmptyCliModelMessage), CliError(EmptyEnvModelMessage)}

\* C4 as stated: a blank flag override or a blank environment override always
\* makes the resolution fail with the invalid-model error.
C4_AnyBlankOverrideFails ==
  IsResolveModelId /\ (Blank(CliOverride) \/ Blank(EnvOverride)) =>
     ret.threw /\ ret.error \in InvalidModelErrors

\* C4 amended: a blank flag override always fails; a blank environment
\* override fails whenever no flag override is present; a present override
\* never yields a lower tier's value (only an absent one falls through).
C4_BlankOverrideFails ==
  IsResolveModelId =>
     /\ (Blank(CliOverride) => ret = Throw(CliError(EmptyCliModelMessage)))
     /\ (~CliOverride.defined /\ Blank(EnvOverride) =>
           ret = Throw(CliError(EmptyEnvModelMessage)))
     /\ (CliOverride.defined =>
           ret \in {Throw(CliError(EmptyCliModelMessage)),
                    Return(Trimmed(CliOverride.value))})
     /\ (~CliOverride.defined /\ EnvOverride.defined =>
           ret \in {Throw(CliError(EmptyEnvModelMessage)),
                    Return(Trimmed(EnvOverride.value))})

C4_Witness ==
  /\ IsResolveModelId
  /\ CliOverride = Def(<<" ">>)
  /\ EnvOverride = Def(<<"e">>)
  /\ ret = Throw(CliError(EmptyCliModelMessage))

IsBuildModelEndpoint == call.fn = "buildModelEndpoint" /\ ret # Pending

\* an http:// or https:// URL with a host: the scheme prefix, then at least
\* one unit, none of them white space
WellFormedHttpUrl(s) ==
  \E p \in {HttpPrefix, HttpsPrefix} :
     /\ BeginsWith(s, p)
     /\ Len(s) > Len(p)
     /\ \A i \in 1..Len(s) : s[i] \notin WhiteSpace

ExpandedEndpoint(id) == EndpointHead \o id \o EndpointTail

\* C5 as stated: the identifier comes back unchanged exactly when it is a
\* well-formed http:// or https:// URL, and otherwise inside the template.
C5_PassThroughIffWellFormed ==
  IsBuildModelEndpoint =>
     /\ (ret.value = call.modelId <=> WellFormedHttpUrl(call.modelId))
     /\ (~WellFormedHttpUrl(call.modelId) => ret.value = ExpandedEndpoint(call.modelId))

\* C5 amended: the identifier comes back unchanged exactly when it begins
\* with http:// or https://, whatever follows; every other identifier comes
\* back inside the endpoint template.
C5_PassThroughIffPrefixed ==
  IsBuildModelEndpoint =>
     LET prefixed == BeginsWith(call.modelId, HttpPrefix)
                     \/ BeginsWith(call.modelId, HttpsPrefix)
     IN  /\ (ret.value = call.modelId <=> prefixed)
         /\ (~prefixed => ret.value = ExpandedEndpoint(call.modelId))

C5_Witness ==
  /\ IsBuildModelEndpoint
  /\ call.modelId = HttpPrefix \o <<"h">>
  /\ ret = Return(HttpPrefix \o <<"h">>)

IsParseCliArgs == call.fn = "parseCliArgs" /\ ret # Pending

\* the vector a with the two tokens --model X at i, i + 1 written --model=X
Joined(a, i) ==
  SubSeq(a, 1, i - 1) \o <<ModelFlagEq \o a[i + 1]>> \o SubSeq(a, i + 2, Len(a))

\* C6 as stated: wherever --model X with a non-blank X stands in the
\* argument vector, writing it --model=X gives the same outcome.
C6_FormsAgree ==
  IsParseCliArgs =>
     \A i \in 1..(Len(call.args) - 1) :
        call.args[i] = ModelFlag /\ ~AllWhite(call.args[i + 1]) =>
           ret = parseCliArgs(Joined(call.args, i))

\* C6 amended: the two forms give the same outcome for every non-blank X
\* that does not begin with "--".
C6_FormsAgreeOnPlainValues ==
  IsParseCliArgs =>
     \A i \in 1..(Len(call.args) - 1) :
        /\ call.args[i] = ModelFlag
        /\ ~AllWhite(call.args[i + 1])
        /\ ~BeginsWith(call.args[i + 1], FlagPrefix)
        => ret = parseCliArgs(Joined(call.args, i))

C6_Witness ==
  /\ IsParseCliArgs
  /\ call.args = <<KeyJa, ModelFlag, <<"f">>>>
  /\ ret = Return([positional |-> <<KeyJa>>, modelOverride |-> Def(<<"f">>)])
  /\ ret = parseCliArgs(<<KeyJa, ModelFlagEq \o <<"f">>>>)

\* C7: parseCliArgs fails with the malformed-argument error whenever a
\* --model token has no following value, a blank one or one that begins with
\* "--", and whenever a --model=... token has a blank value; a modelOverride
\* it returns is never blank.
C7_BlankFlagValueRejected ==
  IsParseCliArgs =>
     LET a == call.args
     IN  /\ (\E i \in 1..Len(a) :
               /\ a[i] = ModelFlag
               /\ (i = Len(a) \/ AllWhite(a[i + 1]) \/ BeginsWith(a[i + 1], FlagPrefix)))
            => ret = Throw(CliError(FlagValueMessage))
         /\ (\E i \in 1..Len(a) :
               /\ BeginsWith(a[i], ModelFlagEq)
               /\ AllWhite(SubSeq(a[i], Len(ModelFlagEq) + 1, Len(a[i]))))
            => ret = Throw(CliError(FlagValueMessage))
         /\ (~ret.threw /\ ret.value.modelOverride.defined
               => ~AllWhite(ret.value.modelOverride.value))

IsResolveLanguageMetadata == call.fn = "resolveLanguageMetadata" /\ ret # Pending

PresetKeys == {KeyJa, KeyEn, KeyEs, KeyZhCn, KeyZhTw}

\* the code lowercased, with underscores turned into hyphens
LookupForm(code) ==
  [i \in 1..Len(code) |-> IF code[i] = "_" THEN "-" ELSE lowerUnit(code[i])]

\* C8: for a non-blank code resolveLanguageMetadata gives the preset's display
\* name and instructions when the code, lowercased and with underscores as
\* hyphens, is a preset key, and for every other code the fallback record:
\* the code as supplied for display name, the generic instruction.  The code
\* is read without the white space around it, which the resolver strips.
C8_PresetOrFallback ==
  IsResolveLanguageMetadata =>
     LET supplied == Trimmed(call.lang)
         key == LookupForm(supplied)
     IN  /\ ~ret.threw
         /\ IF key \in PresetKeys
            THEN /\ ret.value.displayName = Def(languagePresets[key].displayName)
                 /\ ret.value.instructions = Def(languagePresets[key].instructions)
            ELSE /\ ret.value.displayName = Def(supplied)
                 /\ ret.value.instructions = Def(FallbackInstructions)

IsEnsureInputContent == call.fn = "ensureInputContent" /\ ret # Pending

\* C9: ensureInputContent raises the empty-input failure on exactly the
\* strings that are empty or all white space, and returns every other string
\* unchanged.
C9_EmptyInputExactly ==
  IsEnsureInputContent =>
     /\ (AllWhite(call.content) => ret = Throw(CliError(EmptyInputMessage)))
     /\ (~AllWhite(call.content) => ret = Return(call.content))

C9_Witness ==
  /\ IsEnsureInputContent
  /\ call.content = <<" ", "a", "\n">>
  /\ ret = Return(<<" ", "a", "\n">>)

IsReadResponse == call.fn = "readResponse" /\ ret # Pending

\* the text fragments of a list of parts, in order, a missing text as empty
RECURSIVE TextOfParts(_)
TextOfParts(ps) ==
  IF ps = <<>> THEN <<>>
  ELSE TextOfParts(SubSeq(ps, 1, Len(ps) - 1))
       \o (IF ps[Len(ps)].text.defined THEN ps[Len(ps)].text.value ELSE <<>>)

\* the text of a list of candidates, in order, missing content or parts as empty
RECURSIVE TextOfCandidates(_)
TextOfCandidates(cs) ==
  IF cs = <<>> THEN <<>>
  ELSE LET c == cs[Len(cs)]
       IN  TextOfCandidates(SubSeq(cs, 1, Len(cs) - 1))
           \o (IF c.content.defined /\ c.content.value.parts.defined
               THEN TextOfParts(c.content.value.parts.value)
               ELSE <<>>)

\* C10: on a success status with a JSON body, the text returned is every text
\* fragment of every candidate, in order, concatenated and trimmed; when that
\* is empty (no candidates included) the call fails with the
\* empty-translation error and returns nothing.
C10_ConcatenatedTrimmedText ==
  IsReadResponse /\ call.resp.status \in 200..299 /\ ~call.resp.json.threw =>
     LET json == call.resp.json.value
         whole == Trimmed(TextOfCandidates(IF json.candidates.defined
                                           THEN json.candidates.value
                                           ELSE <<>>))
     IN  IF whole = <<>>
         THEN ret = Throw(CliError(EmptyResponseMessage))
         ELSE ret = Return(whole)

C10_Witness ==
  /\ IsReadResponse
  /\ call.resp.status = 200
  /\ call.resp.json =
       Return([candidates |->
                 Def(<<Candidate(<<Part(<<" ", "a">>), Part(<<"b">>)>>),
                       Candidate(<<[text |-> undefined], Part(<<" ", "a">>)>>)>>)])
  /\ ret = Return(<<"a", "b", " ", "a">>)

\* x is one of the entries of the log
Logged(x) == \E i \in 1..Len(ioLog) : ioLog[i] = x

\* sub occurs in s
Contains(s, sub) ==
  \E i \in 1..(Len(s) + 1) :
     i + Len(sub) - 1 <= Len(s) /\ SubSeq(s, i, i + Len(sub) - 1) = sub

\* the three decimal digits of an HTTP status code
StatusDigits(n) ==
  <<Digits[(n \div 100) + 1], Digits[((n \div 10) % 10) + 1], Digits[(n % 10) + 1]>>

RemoteFailureHead == <<"Gemini API request failed with status ">>

GotFailureStatus == response.defined /\ response.value.status \notin 200..299

\* C11: once the service has answered with a non-success status, the run has
\* failed with the CliError whose message holds the status code and the raw
\* body; the body was read as text and never parsed; no translation was
\* taken from it; nothing is on standard output and the exit code is not 0.
C11_FailureStatusIsRemoteError ==
  GotFailureStatus =>
     /\ Failed
     /\ thrown.value.class = "CliError"
     /\ BeginsWith(thrown.value.message, RemoteFailureHead)
     /\ Contains(thrown.value.message, StatusDigits(response.value.status))
     /\ Contains(thrown.value.message, response.value.text)
     /\ Logged("response.text") /\ ~Logged("response.json")
     /\ ~locals.translation.defined
     /\ stdout = <<>>
     /\ Len(requests) = 1
     /\ (Exited => /\ exitCode.defined /\ exitCode.value # 0
                   /\ stderr = <<thrown.value.message \o <<"\n">>>>)

C11_Witness ==
  /\ Exited
  /\ response.defined
  /\ response.value.status = 503
  /\ stderr = << RemoteFailureHead \o <<"5", "0", "3">> \o <<": ">>
                 \o <<"{", "c", "}">> \o <<"\n">> >>

\* the run failed while the input was being read from the file or the stream
InputAcquisitionFailed ==
  /\ Failed
  /\ ~locals.rawInput.defined
  /\ (Logged("readFile") \/ Logged("readStdin"))

UnexpectedHead == <<"Unexpected error: ">>

\* C12: a failure to read the named file and an error of the stdin stream
\* both reach handleError as a CliError and are reported with their own
\* message, not through the unexpected-error branch.
C12_InputFailuresAreTyped ==
  InputAcquisitionFailed =>
     /\ thrown.value.class = "CliError"
     /\ (Exited => /\ stderr = <<thrown.value.message \o <<"\n">>>>
                   /\ ~BeginsWith(stderr[1], UnexpectedHead))

\* every check main makes before the request passed
ValidationPassed ==
  /\ NonBlank(env.GEMINI_API_KEY)
  /\ locals.targetLanguage.defined
  /\ locals.input.defined
  /\ ~resolveModelId(locals.modelOverride, env).threw

\* C13: a run sends at most one request, whatever the service answers; a
\* run that passed every check before the network sends exactly one, and
\* the request's body is one user message with one part, the prompt built
\* from the language metadata and the input.
C13_SingleRequest ==
  /\ Len(requests) <= 1
  /\ (Exited /\ ValidationPassed => Len(requests) = 1)
  /\ (requests # <<>> =>
        /\ ValidationPassed
        /\ locals.prompt.defined
        /\ locals.prompt.value =
             buildTranslationPrompt(locals.languageMetadata, locals.input.value)
        /\ requests[1].method = "POST"
        /\ requests[1].body =
             [contents |-> <<[role |-> "user",
                              parts |-> <<[text |-> locals.prompt.value]>>]>>])

C13_Witness ==
  /\ Exited
  /\ Failed
  /\ Len(requests) = 1
  /\ response.defined
  /\ response.value.status = 500
  /\ requests[1].body.contents[1].parts[1].text = locals.prompt.value

\* the argument vector ends with the model flag, which has no value after it
DanglingModelFlag == argv # <<>> /\ argv[Len(argv)] = ModelFlag

ThrownIs(message) == Failed /\ thrown.value = CliError(message)

\* C14 as stated: the Input Resolver runs before the language stage, so the
\* missing-language failure is only reported once the input was obtained, and
\* a run whose --model flag has no value always reports the malformed
\* argument, with no input read and no request.
C14_StagesInStatedOrder ==
  /\ (ThrownIs(MissingLangMessage) => locals.rawInput.defined)
  /\ (Exited /\ DanglingModelFlag =>
        /\ ThrownIs(FlagValueMessage)
        /\ ioLog = <<>>
        /\ requests = <<>>)

\* C14, amended: the stages run in the order credential check, Argument
\* Parser, language check and Language Metadata Resolver, Input Resolver,
\* Prompt Builder, Model Endpoint Resolver, Translation Client; a stage has
\* acted only if every earlier one succeeded, and after a failure no later
\* stage has acted. A run whose --model flag has no value reads no input and
\* sends no request; it reports the malformed argument when a key is
\* configured and the missing credential otherwise.
C14_StagesInOrder ==
  /\ (locals # NoLocals \/ ioLog # <<>> =>
        NonBlank(env.GEMINI_API_KEY) /\ ~parseCliArgs(argv).threw)
  /\ (locals.languageMetadata # undefined => locals.targetLanguage.defined)
  /\ (ioLog # <<>> => locals.languageMetadata # undefined)
  /\ (locals.rawInput.defined => ioLog # <<>>)
  /\ (locals.prompt.defined => locals.input.defined /\ locals.rawInput.defined)
  /\ (requests # <<>> => locals.prompt.defined)
  /\ (response.defined => requests # <<>>)
  /\ (locals.translation.defined => response.defined)
  /\ (ThrownIs(MissingKeyMessage) \/ ThrownIs(FlagValueMessage) =>
        locals = NoLocals /\ ioLog = <<>> /\ requests = <<>>)
  /\ (ThrownIs(MissingLangMessage) =>
        /\ locals.languageMetadata = undefined
        /\ ioLog = <<>>
        /\ requests = <<>>)
  /\ (ThrownIs(NoInputMessage) \/ InputAcquisitionFailed
            \/ ThrownIs(EmptyInputMessage) =>
        ~locals.prompt.defined /\ requests = <<>>)
  /\ (Failed /\ thrown.value \in InvalidModelErrors =>
        locals.prompt.defined /\ requests = <<>>)
  /\ (Exited /\ DanglingModelFlag =>
        /\ IF NonBlank(env.GEMINI_API_KEY)
           THEN ThrownIs(FlagValueMessage)
           ELSE ThrownIs(MissingKeyMessage)
        /\ ioLog = <<>>
        /\ requests = <<>>)

C14_Witness ==
  /\ Exited
  /\ argv = <<KeyJa, <<"f">>, ModelFlag>>
  /\ env.GEMINI_API_KEY = Def(<<"k">>)
  /\ stderr = <<FlagValueMessage \o <<"\n">>>>
  /\ ioLog = <<>>

\* the places of a that hold neither the model flag, in either form, nor
\* the value that follows the two-token form
PositionalPlaces(a) ==
  {i \in 1..Len(a) :
     /\ a[i] # ModelFlag
     /\ ~BeginsWith(a[i], ModelFlagEq)
     /\ (i > 1 => a[i - 1] # ModelFlag)}

\* pos holds the tokens of a at the places in P, in the order of a
TokensAt(pos, a, P) ==
  /\ Len(pos) = Cardinality(P)
  /\ \A i \in P : pos[Cardinality({j \in P : j <= i})] = a[i]

ReadFailureHead == <<"Failed to read file: ">>

ParsePassed == pc \notin {"ensureApiKey", "parseCliArgs"} /\ ~parseCliArgs(argv).threw
                  /\ ~ThrownIs(MissingKeyMessage)

SourceChosen == Logged("readFile") \/ Logged("isTTY:true") \/ Logged("isTTY:false")

\* C16: with a second positional, the empty string included, the file is
\* read and neither the terminal check nor stdin is touched; stdin is read
\* only with no second positional and a stdin that is not a terminal; with a
\* terminal the run fails with the usage message and reads nothing.
C16_SourceByPresence ==
  /\ (SourceChosen /\ Len(locals.positional) >= 2 =>
        /\ Logged("readFile")
        /\ ~Logged("isTTY:true")
        /\ ~Logged("isTTY:false")
        /\ ~Logged("readStdin"))
  /\ (Logged("readStdin") =>
        Len(locals.positional) < 2 /\ Logged("isTTY:false"))
  /\ (Logged("isTTY:true") =>
        /\ ThrownIs(NoInputMessage)
        /\ ~Logged("readStdin")
        /\ ~Logged("readFile"))

====
